---- MODULE Spec2Model ----
(***************************************************************************)
(* show-bytes (src/src/lib.rs): a Printer holding one QuoteStyle renders a *)
(* byte sequence as printable ASCII with escapes, into a caller's          *)
(* fmt::Write sink (Printer::write_to) or into a fresh String              *)
(* (Printer::into_string, show_bytes).                                     *)
(*                                                                         *)
(* Text is modelled as a sequence of character codes, so that formatting a *)
(* byte ("\\x{:02x}", byte as char) is a computation on numbers and not    *)
(* the identity.                                                           *)
(***************************************************************************)
EXTENDS Integers, Sequences, FiniteSets, TLC

\* ------------------------------------------------------------------ bounds

\* Longest byte sequence drawn over ByteSample.
MaxLen == 3

\* ------------------------------------------------------------ input domain

\* u8
Byte == 0 .. 255

\* Bytes whose neighbours matter to one another in a rendering: NUL, LF, the
\* two quotes, '0', the backslash, 'x' and 0xff.
ByteSample == {0, 10, 34, 39, 48, 92, 120, 255}

\* The byte slice of the crate's documentation example.
DocExample == <<72, 101, 108, 108, 111, 0, 255>>

SeqsUpTo(S, n) == UNION {[1 .. k -> S] : k \in 0 .. n}

\* The byte sources a call is given: every sequence over ByteSample up to
\* MaxLen, every single byte, and the documentation example.
Inputs == SeqsUpTo(ByteSample, MaxLen) \cup {<<b>> : b \in Byte} \cup {DocExample}

\* What a caller's sink may already hold when write_to is called.
PreContents == {<< >>, <<62>>}

\* ---------------------------------------------------------------- Printer

\* enum QuoteStyle
QuoteStyle == {"None", "Single", "Double"}

\* Printer::new
PrinterNew(quote_style) == [quote_style |-> quote_style]

\* impl Default for Printer
PrinterDefault == [quote_style |-> "None"]

\* Variant of ShowBytesPrinter: the helper on the default printer.
ShowBytesPrinterDefault == PrinterDefault

\* show_bytes: Printer::new(QuoteStyle::Double)
ShowBytesPrinter == PrinterNew("Double")

\* -------------------------------------------------------------- formatting

\* Variant of IsAsciiGraphic: the printable range, the space included.
IsAsciiGraphicOrSpace(byte) == byte >= 32 /\ byte <= 126

\* u8::is_ascii_graphic: b'!' ..= b'~'
IsAsciiGraphic(byte) == byte >= 33 /\ byte <= 126

\* One lowercase hexadecimal digit as a character: '0'..'9', 'a'..'f'.
LowerHexDigit(d) == IF d < 10 THEN 48 + d ELSE 97 + (d - 10)

\* Variant of LowerHexDigit: 'A'..'F'.
UpperHexDigit(d) == IF d < 10 THEN 48 + d ELSE 65 + (d - 10)

RECURSIVE LowerHex(_)
\* {:x}: the digits of n in base 16, most significant first, no leading zero.
LowerHex(n) ==
    IF n < 16 THEN <<LowerHexDigit(n)>>
    ELSE LowerHex(n \div 16) \o <<LowerHexDigit(n % 16)>>

RECURSIVE UpperHex(_)
\* Variant of LowerHex: {:X}.
UpperHex(n) ==
    IF n < 16 THEN <<UpperHexDigit(n)>>
    ELSE UpperHex(n \div 16) \o <<UpperHexDigit(n % 16)>>

RECURSIVE ZeroPad(_, _)
\* {:0w}: '0' characters on the left up to width w.
ZeroPad(digits, w) ==
    IF Len(digits) >= w THEN digits ELSE ZeroPad(<<48>> \o digits, w)

\* Variant of FormatHex: "\\x{:02X}".
FormatHexUpper(byte) == <<92, 120>> \o ZeroPad(UpperHex(byte), 2)

\* write!(writer, "\\x{:02x}", byte)
FormatHex(byte) == <<92, 120>> \o ZeroPad(LowerHex(byte), 2)

\* The opening match of write_to: what it writes, << >> for Ok(()) unwritten.
OpenQuote(quote_style) ==
    IF quote_style = "None" THEN << >>
    ELSE IF quote_style = "Single" THEN <<39>>
    ELSE <<34>>

\* Variant of CloseQuote: the Single arm closing with ".
CloseQuoteAlwaysDouble(quote_style) ==
    IF quote_style = "None" THEN << >> ELSE <<34>>

\* The closing match of write_to.
CloseQuote(quote_style) ==
    IF quote_style = "None" THEN << >>
    ELSE IF quote_style = "Single" THEN <<39>>
    ELSE <<34>>

\* Variant of ByteArm: a quoting style escaping both quote characters.
ByteArmEitherQuote(quote_style, byte) ==
    IF quote_style # "None" /\ byte = 39 THEN <<92, 39>>
    ELSE IF quote_style # "None" /\ byte = 34 THEN <<92, 34>>
    ELSE IF byte = 92 THEN <<92, 92>>
    ELSE IF IsAsciiGraphic(byte) THEN <<byte>>
    ELSE FormatHex(byte)

\* Variant of ByteArm: the graphic arm before the backslash arm.
ByteArmGraphicFirst(quote_style, byte) ==
    IF quote_style = "Single" /\ byte = 39 THEN <<92, 39>>
    ELSE IF quote_style = "Double" /\ byte = 34 THEN <<92, 34>>
    ELSE IF IsAsciiGraphic(byte) THEN <<byte>>
    ELSE IF byte = 92 THEN <<92, 92>>
    ELSE FormatHex(byte)

\* Variant of ByteArm: no backslash arm, the backslash hex-escaped.
ByteArmBackslashHex(quote_style, byte) ==
    IF quote_style = "Single" /\ byte = 39 THEN <<92, 39>>
    ELSE IF quote_style = "Double" /\ byte = 34 THEN <<92, 34>>
    ELSE IF IsAsciiGraphic(byte) /\ byte # 92 THEN <<byte>>
    ELSE FormatHex(byte)

\* Variant of ByteArm: no Double arm.
ByteArmNoDoubleEscape(quote_style, byte) ==
    IF quote_style = "Single" /\ byte = 39 THEN <<92, 39>>
    ELSE IF byte = 92 THEN <<92, 92>>
    ELSE IF IsAsciiGraphic(byte) THEN <<byte>>
    ELSE FormatHex(byte)

\* The match on one byte in write_to's loop, its arms tried in order: the text
\* handed to the writer.
ByteArm(quote_style, byte) ==
    IF quote_style = "Single" /\ byte = 39 THEN <<92, 39>>
    ELSE IF quote_style = "Double" /\ byte = 34 THEN <<92, 34>>
    ELSE IF byte = 92 THEN <<92, 92>>
    ELSE IF IsAsciiGraphic(byte) THEN <<byte>>
    ELSE FormatHex(byte)

\* ------------------------------------------------------------------- sinks

\* A write of text to a sink: the outcomes [ok, taken], taken being what the
\* sink holds of text afterwards. A String takes all of it and never fails;
\* a caller's fmt::Write may fail having taken any prefix of the text, none
\* of it and all of it included (a writer that keeps the text and then
\* reports Err).
SinkWrite(kind, text) ==
    {[ok |-> TRUE, taken |-> text]}
        \cup (IF kind = "String" THEN {}
              ELSE {[ok |-> FALSE, taken |-> SubSeq(text, 1, k)] :
                        k \in 0 .. Len(text)})

\* Variant of IntoStringSink: a writer that may fail.
IntoStringSinkFallible == "Fallible"

\* into_string: let mut output = String::new()
IntoStringSink == "String"

\* Variant of Try: the Result dropped, control going on.
TryIgnore(ok, next) == next

\* The ? after each match of write_to: where control goes.
Try(ok, next) == IF ok THEN next ELSE "return"

\* ------------------------------------------------------------------- state

VARIABLES
    bytes,      \* the byte source of the call
    api,        \* "none" | "write_to" | "into_string" | "show_bytes"
    ctor,       \* how the printer was made: "none" | "new" | "default"
    printer,    \* self
    sink,       \* the writer's kind: "String" | "Fallible"
    pre,        \* what the writer held when write_to was called
    writer,     \* what the writer holds
    idx,        \* bytes taken from the iterator
    pc,         \* "idle" | "open" | "loop" | "return" | "done"
    result,     \* write_to's Result: "none" | "Ok" | "Err"
    log,        \* the writes issued to the writer: [site, at, text, ok]
    panicked,   \* into_string's expect failed
    output      \* the String into_string returned, NoString before

vars == <<bytes, api, ctor, printer, sink, pre, writer, idx, pc, result, log,
          panicked, output>>

NoString == <<-1>>

Init ==
    /\ bytes \in Inputs
    /\ api = "none"
    /\ ctor = "none"
    /\ printer = PrinterDefault
    /\ sink = "String"
    /\ pre = << >>
    /\ writer = << >>
    /\ idx = 0
    /\ pc = "idle"
    /\ result = "none"
    /\ log = << >>
    /\ panicked = FALSE
    /\ output = NoString

\* The printers a caller can make, with how each was made.
Constructed ==
    {[ctor |-> "new", printer |-> PrinterNew(q)] : q \in QuoteStyle}
        \cup {[ctor |-> "default", printer |-> PrinterDefault]}

\* A caller calls Printer::write_to with its own writer.
write_to ==
    /\ pc = "idle"
    /\ \E c \in Constructed, w \in PreContents :
        /\ ctor' = c.ctor
        /\ printer' = c.printer
        /\ pre' = w
        /\ writer' = w
    /\ api' = "write_to"
    /\ sink' = "Fallible"
    /\ pc' = "open"
    /\ UNCHANGED <<bytes, idx, result, log, panicked, output>>

\* A caller calls Printer::into_string: a new String is the writer.
into_string ==
    /\ pc = "idle"
    /\ \E c \in Constructed :
        /\ ctor' = c.ctor
        /\ printer' = c.printer
    /\ api' = "into_string"
    /\ sink' = IntoStringSink
    /\ pre' = << >>
    /\ writer' = << >>
    /\ pc' = "open"
    /\ UNCHANGED <<bytes, idx, result, log, panicked, output>>

\* A caller calls show_bytes, which makes its printer and calls into_string.
show_bytes ==
    /\ pc = "idle"
    /\ ctor' = "new"
    /\ printer' = ShowBytesPrinter
    /\ api' = "show_bytes"
    /\ sink' = IntoStringSink
    /\ pre' = << >>
    /\ writer' = << >>
    /\ pc' = "open"
    /\ UNCHANGED <<bytes, idx, result, log, panicked, output>>

\* One write issued by write_to at a site, and the ? that follows it.
Issue(site, at, text, next) ==
    \E o \in SinkWrite(sink, text) :
        /\ writer' = writer \o o.taken
        /\ log' = Append(log, [site |-> site, at |-> at, text |-> text, ok |-> o.ok])
        /\ pc' = Try(o.ok, next)
        /\ result' = IF Try(o.ok, next) = "return" THEN "Err" ELSE result

\* write_to: the opening match and its ?.
write_to_open ==
    /\ pc = "open"
    /\ IF printer.quote_style = "None"
       THEN /\ pc' = Try(TRUE, "loop")
            /\ UNCHANGED <<writer, log, result>>
       ELSE Issue("open", 0, OpenQuote(printer.quote_style), "loop")
    /\ UNCHANGED <<bytes, api, ctor, printer, sink, pre, idx, panicked, output>>

\* write_to: one turn of the for loop, the iterator yielding a byte.
write_to_byte ==
    /\ pc = "loop"
    /\ idx < Len(bytes)
    /\ idx' = idx + 1
    /\ Issue("byte", idx + 1, ByteArm(printer.quote_style, bytes[idx + 1]), "loop")
    /\ UNCHANGED <<bytes, api, ctor, printer, sink, pre, panicked, output>>

\* write_to: the iterator is exhausted; the closing match, its ?, and Ok(()).
write_to_close ==
    /\ pc = "loop"
    /\ idx = Len(bytes)
    /\ IF printer.quote_style = "None"
       THEN /\ pc' = Try(TRUE, "return")
            /\ result' = "Ok"
            /\ UNCHANGED <<writer, log>>
       ELSE \E o \in SinkWrite(sink, CloseQuote(printer.quote_style)) :
            /\ writer' = writer \o o.taken
            /\ log' = Append(log, [site |-> "close", at |-> 0,
                                   text |-> CloseQuote(printer.quote_style),
                                   ok |-> o.ok])
            /\ pc' = Try(o.ok, "return")
            /\ result' = IF o.ok THEN "Ok" ELSE "Err"
    /\ UNCHANGED <<bytes, api, ctor, printer, sink, pre, idx, panicked, output>>

\* write_to returns to a direct caller.
write_to_return ==
    /\ pc = "return"
    /\ api = "write_to"
    /\ pc' = "done"
    /\ UNCHANGED <<bytes, api, ctor, printer, sink, pre, writer, idx, result,
                   log, panicked, output>>

\* into_string: the expect on write_to's result, then the String is returned
\* (through show_bytes unchanged, when show_bytes made the call).
into_string_expect ==
    /\ pc = "return"
    /\ api \in {"into_string", "show_bytes"}
    /\ panicked' = (result = "Err")
    /\ output' = IF result = "Err" THEN NoString ELSE writer
    /\ pc' = "done"
    /\ UNCHANGED <<bytes, api, ctor, printer, sink, pre, writer, idx, result, log>>

Next ==
    \/ write_to
    \/ into_string
    \/ show_bytes
    \/ write_to_open
    \/ write_to_byte
    \/ write_to_close
    \/ write_to_return
    \/ into_string_expect

Spec == Init /\ [][Next]_vars

\* ------------------------------------------------- what the claims speak of

\* The call has returned success.
ReturnedOk == pc = "done" /\ result = "Ok"

\* What the call wrote to its writer.
Written == SubSeq(writer, Len(pre) + 1, Len(writer))

\* The rendering the call delivered: the String returned, or the text written
\* to the caller's writer.
Text == IF api = "write_to" THEN Written ELSE output

RECURSIVE Flatten(_)
Flatten(ss) == IF ss = << >> THEN << >> ELSE Head(ss) \o Flatten(Tail(ss))

IsByteSite(e) == e.site = "byte"

\* The writes of the loop, in the order issued.
ByteWrites == SelectSeq(log, IsByteSite)

AllOk == \A k \in 1 .. Len(log) : log[k].ok

\* The text of the writes before the k-th.
TextBefore(k) == Flatten([j \in 1 .. k - 1 |-> log[j].text])

\* The bracket character of a style, as the specification tabulates it.
Bracket(q) ==
    IF q = "Single" THEN <<39>> ELSE IF q = "Double" THEN <<34>> ELSE << >>

\* "0123456789abcdef"
HexChars == <<48, 49, 50, 51, 52, 53, 54, 55, 56, 57, 97, 98, 99, 100, 101, 102>>

\* \xHH of a byte: backslash, 'x', high digit, low digit.
HexEscape(b) == <<92, 120, HexChars[(b \div 16) + 1], HexChars[(b % 16) + 1]>>

\* The fragment the specification gives a byte under a style.
SpecFragment(q, b) ==
    IF b < 33 \/ b > 126 THEN HexEscape(b)
    ELSE IF b = 92 THEN <<92, 92>>
    ELSE IF b = 39 /\ q = "Single" THEN <<92, 39>>
    ELSE IF b = 34 /\ q = "Double" THEN <<92, 34>>
    ELSE <<b>>

\* The rendering the specification gives a byte sequence under a style.
SpecRender(q, bs) ==
    Bracket(q) \o Flatten([i \in 1 .. Len(bs) |-> SpecFragment(q, bs[i])]) \o Bracket(q)

\* ---------------------------------------------------------------------- C1

\* C1: when the call returns success, the text delivered is the style's
\* bracket, then one fragment per byte in input order (the texts of the
\* loop's writes, one per byte), then the bracket again; the empty sequence
\* gives "", '' and "" with a pair of quotes, and the documentation example
\* with Double gives "Hello\x00\xff" in double quotes.
C1_BracketFragmentsBracket ==
    ReturnedOk =>
        /\ Len(ByteWrites) = Len(bytes)
        /\ \A i \in 1 .. Len(bytes) : ByteWrites[i].at = i
        /\ Text = Bracket(printer.quote_style)
                    \o Flatten([i \in 1 .. Len(bytes) |-> ByteWrites[i].text])
                    \o Bracket(printer.quote_style)
        /\ (bytes = << >> /\ printer.quote_style = "None") => Text = << >>
        /\ (bytes = << >> /\ printer.quote_style = "Single") => Text = <<39, 39>>
        /\ (bytes = << >> /\ printer.quote_style = "Double") => Text = <<34, 34>>
        /\ (bytes = DocExample /\ printer.quote_style = "Double") =>
              Text = <<34, 72, 101, 108, 108, 111,
                       92, 120, 48, 48, 92, 120, 102, 102, 34>>

C1_Witness ==
    /\ ReturnedOk
    /\ api = "write_to"
    /\ bytes = <<39, 0, 92>>
    /\ printer.quote_style = "Single"
    /\ Written = <<39, 92, 39, 92, 120, 48, 48, 92, 92, 39>>

\* ---------------------------------------------------------------------- C2

\* C2: into_string never takes the failure branch of its expect, never stops
\* before it has returned, and returns a String equal to the specified
\* rendering, which is also what write_to has written into an initially empty
\* sink once all its writes were accepted.
C2_IntoStringTotal ==
    /\ api \in {"into_string", "show_bytes"} =>
          /\ ~panicked
          /\ result # "Err"
          /\ AllOk
          /\ pc # "done" => ENABLED Next
          /\ pc = "done" =>
                /\ output # NoString
                /\ output = writer
                /\ output = SpecRender(printer.quote_style, bytes)
    /\ (api = "write_to" /\ pre = << >> /\ ReturnedOk) =>
          writer = SpecRender(printer.quote_style, bytes)

C2_Witness ==
    /\ api = "into_string"
    /\ pc = "done"
    /\ bytes = <<255, 34, 10>>
    /\ printer.quote_style = "Double"
    /\ output = <<34, 92, 120, 102, 102, 92, 34, 92, 120, 48, 97, 34>>

\* ---------------------------------------------------------------------- C3

\* C3: in every style the write for a byte outside 0x21..0x7E is the four
\* characters backslash, 'x' and the byte's value as two lowercase hex digits,
\* an accepted one lies in the sink as issued, and no space is ever written.
C3_HexEscape ==
    /\ \A k \in 1 .. Len(log) :
          (log[k].site = "byte" /\ (bytes[log[k].at] < 33 \/ bytes[log[k].at] > 126)) =>
              /\ Len(log[k].text) = 4
              /\ log[k].text = HexEscape(bytes[log[k].at])
              /\ log[k].ok =>
                    SubSeq(Written, Len(TextBefore(k)) + 1, Len(TextBefore(k)) + 4)
                        = HexEscape(bytes[log[k].at])
    /\ \A i \in 1 .. Len(Written) : Written[i] # 32
    /\ (ReturnedOk /\ bytes = <<0>>) =>
          Text = Bracket(printer.quote_style) \o <<92, 120, 48, 48>>
                    \o Bracket(printer.quote_style)
    /\ (ReturnedOk /\ bytes = <<32>>) =>
          Text = Bracket(printer.quote_style) \o <<92, 120, 50, 48>>
                    \o Bracket(printer.quote_style)
    /\ (ReturnedOk /\ bytes = <<255>>) =>
          Text = Bracket(printer.quote_style) \o <<92, 120, 102, 102>>
                    \o Bracket(printer.quote_style)

C3_Witness ==
    /\ ReturnedOk
    /\ bytes = <<32>>
    /\ printer.quote_style = "Single"
    /\ Text = <<39, 92, 120, 50, 48, 39>>

\* ---------------------------------------------------------------------- C4

\* C4: the write for byte 0x27 is \' with Single and ' alone otherwise; the
\* write for byte 0x22 is \" with Double and " alone otherwise; the write for
\* any other byte of 0x21..0x7E but the backslash is that one character.
C4_QuoteEscapedIffActive ==
    \A k \in 1 .. Len(log) :
        log[k].site = "byte" =>
            LET b == bytes[log[k].at]
                q == printer.quote_style
            IN /\ b = 39 => log[k].text = IF q = "Single" THEN <<92, 39>> ELSE <<39>>
               /\ b = 34 => log[k].text = IF q = "Double" THEN <<92, 34>> ELSE <<34>>
               /\ (b >= 33 /\ b <= 126 /\ b \notin {34, 39, 92}) => log[k].text = <<b>>

C4_Witness ==
    /\ ReturnedOk
    /\ bytes = <<39, 34, 120>>
    /\ printer.quote_style = "Double"
    /\ Text = <<34, 39, 92, 34, 120, 34>>

\* ---------------------------------------------------------------------- C5

\* C5: in every style the write for byte 0x5C is the two characters backslash
\* backslash, and [92] with None renders as those two characters.
C5_BackslashDoubled ==
    /\ \A k \in 1 .. Len(log) :
          (log[k].site = "byte" /\ bytes[log[k].at] = 92) => log[k].text = <<92, 92>>
    /\ (ReturnedOk /\ bytes = <<92>>) =>
          Text = Bracket(printer.quote_style) \o <<92, 92>> \o Bracket(printer.quote_style)

C5_Witness ==
    /\ ReturnedOk
    /\ bytes = <<92>>
    /\ ctor = "new"
    /\ printer.quote_style = "None"
    /\ api = "into_string"
    /\ output = <<92, 92>>

\* ---------------------------------------------------------------------- C6

RECURSIVE EscapeDoubleQuotes(_)
\* A text with each " replaced by \".
EscapeDoubleQuotes(t) ==
    IF t = << >> THEN << >>
    ELSE (IF Head(t) = 34 THEN <<92, 34>> ELSE <<Head(t)>>)
            \o EscapeDoubleQuotes(Tail(t))

\* C6: the None rendering of a byte sequence is the specified one, and the
\* Double rendering of the same bytes is that text with each " replaced by \",
\* with one " before it and one " after it.
C6_DoubleIsWrappedNone ==
    ReturnedOk =>
        /\ printer.quote_style = "None" => Text = SpecRender("None", bytes)
        /\ printer.quote_style = "Double" =>
              Text = <<34>> \o EscapeDoubleQuotes(SpecRender("None", bytes)) \o <<34>>

C6_Witness ==
    /\ ReturnedOk
    /\ bytes = <<34, 92, 34>>
    /\ printer.quote_style = "Double"
    /\ Text = <<34, 92, 34, 92, 92, 92, 34, 34>>

\* ---------------------------------------------------------------------- C7

IsLowerHexChar(c) == (c >= 48 /\ c <= 57) \/ (c >= 97 /\ c <= 102)

RECURSIVE TokenCount(_)
\* The number of tokens a text splits into, read left to right: \\, \', \",
\* \xHH with two lowercase hex digits, or one graphic character that is not a
\* backslash; -1 when it does not split.
TokenCount(t) ==
    IF t = << >> THEN 0
    ELSE LET n == IF t[1] # 92
                  THEN (IF t[1] >= 33 /\ t[1] <= 126 THEN 1 ELSE 0)
                  ELSE IF Len(t) >= 2 /\ t[2] \in {92, 39, 34} THEN 2
                  ELSE IF Len(t) >= 4 /\ t[2] = 120
                          /\ IsLowerHexChar(t[3]) /\ IsLowerHexChar(t[4]) THEN 4
                  ELSE 0
             rest == IF n = 0 THEN -1 ELSE TokenCount(SubSeq(t, n + 1, Len(t)))
         IN IF rest = -1 THEN -1 ELSE rest + 1

\* A rendering between its brackets (all of it with None).
Inner(q, t) == IF q = "None" THEN t ELSE SubSeq(t, 2, Len(t) - 1)

\* C7: every character of a rendering is in 0x21..0x7E; a Single or Double
\* rendering begins and ends with its quote; and what lies between splits into
\* exactly one token per byte.
C7_OutputAlphabet ==
    ReturnedOk =>
        LET q == printer.quote_style IN
        /\ \A i \in 1 .. Len(Text) : Text[i] >= 33 /\ Text[i] <= 126
        /\ q # "None" =>
              /\ Len(Text) >= 2
              /\ Text[1] = Bracket(q)[1]
              /\ Text[Len(Text)] = Bracket(q)[1]
        /\ TokenCount(Inner(q, Text)) = Len(bytes)

C7_Witness ==
    /\ ReturnedOk
    /\ bytes = <<0, 39, 120>>
    /\ printer.quote_style = "Single"
    /\ Text = <<39, 92, 120, 48, 48, 92, 39, 120, 39>>
    /\ TokenCount(Inner("Single", Text)) = 3

\* ---------------------------------------------------------------------- C8

\* The number of writes write_to issues for the whole input: one per byte and,
\* with a quoting style, the two brackets.
WritesInAll == Len(bytes) + (IF printer.quote_style = "None" THEN 0 ELSE 2)

\* C8: a failed write is the last write issued (none follows it, it is not
\* repeated), write_to is then returning Err with nothing left to do and the
\* sink holding the accepted texts and whatever it kept of the failed one, an Err
\* comes of a failed write only, and Ok comes only after every byte and the
\* closing bracket were written and accepted.
C8_FailurePropagates ==
    /\ \A k \in 1 .. Len(log) : ~log[k].ok => k = Len(log)
    /\ (log # << >> /\ ~log[Len(log)].ok) =>
          /\ result = "Err"
          /\ pc \in {"return", "done"}
          /\ \E n \in 0 .. Len(log[Len(log)].text) :
                Written = TextBefore(Len(log)) \o SubSeq(log[Len(log)].text, 1, n)
    /\ result = "Err" => (log # << >> /\ ~log[Len(log)].ok)
    /\ result = "Ok" =>
          /\ AllOk
          /\ idx = Len(bytes)
          /\ Len(log) = WritesInAll
          /\ Written = Flatten([k \in 1 .. Len(log) |-> log[k].text])
          /\ printer.quote_style # "None" =>
                /\ log[Len(log)].site = "close"
                /\ Written[Len(Written)] = Bracket(printer.quote_style)[1]
    /\ pc \in {"return", "done"} => result \in {"Ok", "Err"}

C8_Witness ==
    /\ api = "write_to"
    /\ pc = "done"
    /\ result = "Err"
    /\ bytes = <<48, 0, 48>>
    /\ printer.quote_style = "Double"
    /\ Len(log) = 3
    /\ ~log[3].ok
    /\ Written = <<34, 48, 92, 120, 48, 48>>

\* ---------------------------------------------------------------------- C9

\* C9: show_bytes uses the printer Printer::new(QuoteStyle::Double) and returns
\* the Double rendering, the one into_string returns for a printer so made; a
\* default-constructed printer has style None and renders unquoted.
C9_ShowBytesIsDouble ==
    /\ (api = "show_bytes" /\ pc # "idle") =>
          /\ printer = [quote_style |-> "Double"]
          /\ pc = "done" => output = SpecRender("Double", bytes)
    /\ (api = "into_string" /\ ctor = "new" /\ printer.quote_style = "Double"
            /\ pc = "done") =>
          output = SpecRender("Double", bytes)
    /\ ctor = "default" =>
          /\ printer.quote_style = "None"
          /\ ReturnedOk => Text = SpecRender("None", bytes)

C9_Witness ==
    /\ api = "show_bytes"
    /\ pc = "done"
    /\ bytes = DocExample
    /\ output = <<34, 72, 101, 108, 108, 111, 92, 120, 48, 48, 92, 120, 102, 102, 34>>

\* --------------------------------------------------------------------- C10

HexValue(c) == IF c <= 57 THEN c - 48 ELSE c - 87

Malformed == <<-1>>

RECURSIVE Decode(_)
\* A text read left to right: \\ is 0x5C, \' is 0x27, \" is 0x22, \xHH is the
\* byte HH, any other character is its own code; Malformed when a backslash
\* begins none of these.
Decode(t) ==
    IF t = << >> THEN << >>
    ELSE LET n == IF t[1] # 92 THEN 1
                  ELSE IF Len(t) >= 2 /\ t[2] \in {92, 39, 34} THEN 2
                  ELSE IF Len(t) >= 4 /\ t[2] = 120
                          /\ IsLowerHexChar(t[3]) /\ IsLowerHexChar(t[4]) THEN 4
                  ELSE 0
             b == IF n = 1 THEN t[1]
                  ELSE IF n = 2 THEN t[2]
                  ELSE 16 * HexValue(t[3]) + HexValue(t[4])
             rest == IF n = 0 THEN Malformed ELSE Decode(SubSeq(t, n + 1, Len(t)))
         IN IF rest = Malformed THEN Malformed ELSE <<b>> \o rest

\* C10: a rendering, its brackets dropped, decodes to exactly the bytes
\* rendered; so under one style no two byte sequences render alike.
C10_DecodeRoundTrip ==
    ReturnedOk =>
        /\ printer.quote_style # "None" => Len(Text) >= 2
        /\ Decode(Inner(printer.quote_style, Text)) = bytes

C10_Witness ==
    /\ ReturnedOk
    /\ bytes = <<92, 120, 48>>
    /\ printer.quote_style = "None"
    /\ Text = <<92, 92, 120, 48>>
    /\ Decode(Text) = <<92, 120, 48>>

====
